---- MODULE Spec2Model ----
(***************************************************************************)
(* MindCubes ai-engine core: Task / TaskQueue (core/task.py), the          *)
(* AgentOrchestrator dispatch loop (core/orchestrator.py), BaseTool.run    *)
(* (core/base_tool.py) and ConversationMemory (core/memory.py).            *)
(*                                                                         *)
(* The module holds several specifications over one set of variables:      *)
(*   Spec       the orchestrator: submit, start/stop, dispatch-loop        *)
(*              iterations, executions, execute_task_sync, cancel          *)
(*   SpecTask   one Task object driven by arbitrary lifecycle calls        *)
(*   SpecQueue  a TaskQueue with add_task / get_next_task and status       *)
(*              changes of the queued tasks                                *)
(*   SpecTool   one BaseTool and calls of run                              *)
(*   SpecMemory one ConversationMemory and calls of store / add_message    *)
(***************************************************************************)
EXTENDS Integers, Sequences, FiniteSets, TLC

VARIABLES
    tasks,        \* task id -> Task object (NoTask before it is constructed)
    queue,        \* TaskQueue.tasks: the ids, in dict insertion order
    clock,        \* what datetime.utcnow() returns
    call,         \* the last operation called and what it returned
    agents,       \* AgentOrchestrator.agents: the names, in dict insertion order
    agentPool,    \* the names of the agent objects the application has made
    running,      \* AgentOrchestrator._running
    active,       \* AgentOrchestrator._active_tasks: task id -> execution id
    execs,        \* execution id -> the execute_task coroutine's state
    loops,        \* loop id -> state of a start() coroutine
    stops,        \* stop() coroutines waiting in gather: sets of execution ids
    max_concurrent_tasks,   \* AgentOrchestrator.max_concurrent_tasks
    ready,        \* executions created and not begun, in the event loop's order
    batch,        \* loops that took a step while `ready` was not empty
    agentCalls,   \* task id -> number of agent.execute_task calls made for it
    task_history, \* BaseAgent.task_history of all agents, in the order appended
    usage_count, success_count, failure_count,   \* BaseTool counters
    inflight,     \* run() calls suspended in `await self.execute(**kwargs)`
    runsBegun,    \* run() calls made so far (never reset)
    max_size, conversations, messages            \* ConversationMemory

taskVars == <<tasks, queue, clock, call>>
orchVars == <<agents, running, active, execs, loops, stops, agentCalls,
             task_history,
             max_concurrent_tasks, ready, batch, agentPool>>
toolVars == <<usage_count, success_count, failure_count, inflight, runsBegun>>
memVars  == <<max_size, conversations, messages>>
vars     == <<taskVars, orchVars, toolVars, memVars>>

----------------------------------------------------------------------------
(* Bounds *)
MaxTasks    == 2      \* task objects constructed in a run
MaxClock    == 1      \* utcnow() ranges over 0..MaxClock
MaxCreated  == 1      \* created_at ranges over 0..MaxCreated
MaxRetriesBound == 1  \* max_retries ranges over 0..MaxRetriesBound
MaxRuns     == 4      \* calls of BaseTool.run in a run
MaxExecs    == 2      \* execute_task coroutines alive at a time
MaxLoops    == 2      \* start() coroutines alive at a time
MaxConcurrent == 2    \* max_concurrent_tasks ranges over 0..MaxConcurrent
MaxMemSize  == 2      \* ConversationMemory.max_size ranges over 0..MaxMemSize

TaskIds == 1..MaxTasks
ExecIds == 1..MaxExecs
LoopIds == 1..MaxLoops

\* Optional[T]: None is the empty tuple, a present value v is <<v>>
None    == <<>>
Some(v) == <<v>>
NoTask  == <<>>

----------------------------------------------------------------------------
(* core/task.py: TaskStatus, TaskPriority, Task *)

PENDING     == "pending"
IN_PROGRESS == "in_progress"
COMPLETED   == "completed"
FAILED      == "failed"
CANCELLED   == "cancelled"
TaskStatus  == {PENDING, IN_PROGRESS, COMPLETED, FAILED, CANCELLED}

TaskPriority == {"low", "medium", "high", "critical"}

\* Task(...): the object after construction (status PENDING, retry_count 0)
Task(priority, created_at, agent_name, max_retries) ==
    [ status        |-> PENDING,
      priority      |-> priority,
      agent_name    |-> agent_name,
      output_data   |-> None,
      error_message |-> None,
      created_at    |-> created_at,
      started_at    |-> None,
      completed_at  |-> None,
      retry_count   |-> 0,
      max_retries   |-> max_retries ]

Task_start(t, now) ==
    [t EXCEPT !.status = IN_PROGRESS, !.started_at = Some(now)]

Task_complete(t, output_data, now) ==
    [t EXCEPT !.status = COMPLETED, !.output_data = output_data,
              !.completed_at = Some(now)]

Task_fail(t, error_message, now) ==
    [t EXCEPT !.status = FAILED, !.error_message = error_message,
              !.completed_at = Some(now)]

Task_cancel(t, now) ==
    [t EXCEPT !.status = CANCELLED, !.completed_at = Some(now)]

\* retry(): the value returned
Task_retry_ret(t) == t.retry_count < t.max_retries

\* a retry() that forgets to check the budget
Task_retry_NoBudgetCheck(t) ==
    [t EXCEPT !.retry_count = t.retry_count + 1,
              !.status = PENDING,
              !.error_message = None]

\* retry(): the object afterwards
Task_retry(t) ==
    IF t.retry_count < t.max_retries
    THEN [t EXCEPT !.retry_count = t.retry_count + 1,
                   !.status = PENDING,
                   !.error_message = None]
    ELSE t

----------------------------------------------------------------------------
(* core/task.py: TaskQueue.  The dict self.tasks is the sequence `queue`   *)
(* of its keys in insertion order together with the objects in `tasks`.    *)

\* TaskQueue.__init__: self._priority_order
_priority_order ==
    [p \in TaskPriority |->
        CASE p = "critical" -> 0
          [] p = "high"     -> 1
          [] p = "medium"   -> 2
          [] p = "low"      -> 3]

InQueue(q, id) == \E k \in 1..Len(q) : q[k] = id

\* self.tasks[task.task_id] = task: a new key goes last, a key already
\* there keeps its place
TaskQueue_add_task(q, id) == IF InQueue(q, id) THEN q ELSE Append(q, id)

TaskQueue_remove_task(q, id) == SelectSeq(q, LAMBDA x : x # id)

\* the sort key of get_next_task and the order of two such tuples
SortKey(ts, id) == <<_priority_order[ts[id].priority], ts[id].created_at>>

KeyLess(a, b) == a[1] < b[1] \/ (a[1] = b[1] /\ a[2] < b[2])

\* list.sort(key=...) is stable: equal keys keep their order in the list
RECURSIVE InsertStable(_, _, _)
InsertStable(x, s, ts) ==
    IF s = <<>> THEN <<x>>
    ELSE IF KeyLess(SortKey(ts, x), SortKey(ts, Head(s)))
         THEN <<x>> \o s
         ELSE <<Head(s)>> \o InsertStable(x, Tail(s), ts)

RECURSIVE StableSort(_, _)
StableSort(s, ts) ==
    IF s = <<>> THEN <<>>
    ELSE InsertStable(s[Len(s)], StableSort(SubSeq(s, 1, Len(s) - 1), ts), ts)

\* a get_next_task that takes the first Pending task in insertion order
TaskQueue_get_next_task_Unsorted(q, ts) ==
    LET pending_tasks == SelectSeq(q, LAMBDA id : ts[id].status = PENDING)
    IN  IF pending_tasks = <<>> THEN None ELSE Some(pending_tasks[1])

\* a get_next_task that forgets the status filter
TaskQueue_get_next_task_NoFilter(q, ts) ==
    IF q = <<>> THEN None ELSE Some(StableSort(q, ts)[1])

\* a get_next_task that sorts by priority alone, latest insertion first
TaskQueue_get_next_task_NoAge(q, ts) ==
    LET pending_tasks == SelectSeq(q, LAMBDA id : ts[id].status = PENDING)
        best == {id \in TaskIds : /\ InQueue(pending_tasks, id)
                                  /\ \A k \in 1..Len(pending_tasks) :
                                        _priority_order[ts[id].priority] <=
                                        _priority_order[ts[pending_tasks[k]].priority]}
    IN  IF pending_tasks = <<>> THEN None
        ELSE Some(pending_tasks[CHOOSE k \in 1..Len(pending_tasks) :
                     /\ pending_tasks[k] \in best
                     /\ \A j \in (k+1)..Len(pending_tasks) : pending_tasks[j] \notin best])

\* get_next_task(): None, or the id of the task returned
TaskQueue_get_next_task(q, ts) ==
    LET pending_tasks == SelectSeq(q, LAMBDA id : ts[id].status = PENDING)
    IN  IF pending_tasks = <<>> THEN None
        ELSE Some(StableSort(pending_tasks, ts)[1])

----------------------------------------------------------------------------
(* The parts of the state a specification does not use *)

TaskIdle ==
    /\ tasks = [i \in TaskIds |-> NoTask]
    /\ queue = <<>>
    /\ clock = 0
    /\ call = [op |-> "none"]

NoExec == <<>>

\* AgentOrchestrator.__init__, but for max_concurrent_tasks
OrchEmpty ==
    /\ agents = <<>>
    /\ running = FALSE
    /\ active = [t \in TaskIds |-> 0]
    /\ execs = [e \in ExecIds |-> NoExec]
    /\ loops = {}
    /\ stops = {}
    /\ ready = <<>>
    /\ batch = {}
    /\ agentCalls = [i \in TaskIds |-> 0]
    /\ task_history = <<>>

OrchIdle ==
    /\ OrchEmpty
    /\ max_concurrent_tasks = 0
    /\ agentPool = {}

ToolIdle ==
    /\ usage_count = 0
    /\ success_count = 0
    /\ failure_count = 0
    /\ inflight = 0
    /\ runsBegun = 0

MemIdle ==
    /\ max_size = 0
    /\ conversations = <<>>
    /\ messages = <<>>

\* datetime.utcnow() advances
Tick ==
    /\ clock < MaxClock
    /\ clock' = clock + 1
    /\ call' = [op |-> "tick"]
    /\ UNCHANGED <<tasks, queue, orchVars, toolVars, memVars>>

----------------------------------------------------------------------------
(* SpecTask: one Task object (id 1) and arbitrary calls of its lifecycle  *)
(* operations, as any holder of the object can make them                  *)

Outputs  == {"result"}
Messages == {"boom"}

InitTask ==
    /\ \E p \in TaskPriority, m \in 0..MaxRetriesBound :
          tasks = [i \in TaskIds |->
                     IF i = 1 THEN Task(p, 0, None, m) ELSE NoTask]
    /\ queue = <<>>
    /\ clock = 0
    /\ call = [op |-> "none"]
    /\ OrchIdle /\ ToolIdle /\ MemIdle

CallStart ==
    /\ tasks' = [tasks EXCEPT ![1] = Task_start(@, clock)]
    /\ call' = [op |-> "start"]
    /\ UNCHANGED <<queue, clock, orchVars, toolVars, memVars>>

CallComplete ==
    /\ \E o \in Outputs :
          tasks' = [tasks EXCEPT ![1] = Task_complete(@, Some(o), clock)]
    /\ call' = [op |-> "complete"]
    /\ UNCHANGED <<queue, clock, orchVars, toolVars, memVars>>

CallFail ==
    /\ \E m \in Messages :
          tasks' = [tasks EXCEPT ![1] = Task_fail(@, Some(m), clock)]
    /\ call' = [op |-> "fail"]
    /\ UNCHANGED <<queue, clock, orchVars, toolVars, memVars>>

CallCancel ==
    /\ tasks' = [tasks EXCEPT ![1] = Task_cancel(@, clock)]
    /\ call' = [op |-> "cancel"]
    /\ UNCHANGED <<queue, clock, orchVars, toolVars, memVars>>

CallRetry ==
    /\ tasks' = [tasks EXCEPT ![1] = Task_retry(@)]
    /\ call' = [op |-> "retry", ret |-> Task_retry_ret(tasks[1])]
    /\ UNCHANGED <<queue, clock, orchVars, toolVars, memVars>>

NextTask ==
    \/ CallStart
    \/ CallComplete
    \/ CallFail
    \/ CallCancel
    \/ CallRetry
    \/ Tick

SpecTask == InitTask /\ [][NextTask]_vars

(* C7: retry() on a Failed task with retry_count < max_retries adds exactly *)
(* one to retry_count, clears error_message, sets the status to Pending and *)
(* returns true; with retry_count = max_retries it returns false and leaves *)
(* the whole task (status Failed, retry_count, error_message) as it was,    *)
(* on every call.                                                           *)
C7_RetryOnFailed ==
    [][ (call'.op = "retry" /\ tasks[1].status = FAILED) =>
          IF tasks[1].retry_count < tasks[1].max_retries
          THEN /\ call'.ret = TRUE
               /\ tasks'[1].retry_count = tasks[1].retry_count + 1
               /\ tasks'[1].error_message = None
               /\ tasks'[1].status = PENDING
          ELSE /\ call'.ret = FALSE
               /\ tasks'[1] = tasks[1]
               /\ tasks'[1].status = FAILED ]_vars

\* retry() was refused on a Failed task that had used its whole budget
C7_Witness ==
    /\ call.op = "retry" /\ call.ret = FALSE
    /\ tasks[1].status = FAILED
    /\ tasks[1].error_message # None
    /\ tasks[1].max_retries > 0
    /\ tasks[1].retry_count = tasks[1].max_retries

\* the status changes of §4.6: Pending->InProgress, InProgress->Completed,
\* InProgress->Failed, InProgress->Cancelled, Pending->Cancelled and the
\* routing failure Pending->Failed (Failed->Pending is the retry edge)
StatusEdges ==
    { <<PENDING, IN_PROGRESS>>, <<IN_PROGRESS, COMPLETED>>,
      <<IN_PROGRESS, FAILED>>, <<IN_PROGRESS, CANCELLED>>,
      <<PENDING, CANCELLED>>, <<PENDING, FAILED>> }

(* C3: every status change of a task made by start, complete, fail, cancel *)
(* or retry is one of StatusEdges, or Failed->Pending made by retry() while *)
(* retry_count < max_retries; so nothing leaves Completed for InProgress    *)
(* and nothing leaves Cancelled.                                            *)
C3_StatusEdges ==
    [][ tasks'[1].status # tasks[1].status =>
          \/ <<tasks[1].status, tasks'[1].status>> \in StatusEdges
          \/ /\ tasks[1].status = FAILED /\ tasks'[1].status = PENDING
             /\ call'.op = "retry"
             /\ tasks[1].retry_count < tasks[1].max_retries ]_vars


----------------------------------------------------------------------------
(* SpecQueue: a TaskQueue.  Callers construct tasks with any priority and  *)
(* creation time and add them in any order; the holders of the tasks move  *)
(* them through their lifecycle; get_next_task is called at any moment.    *)
(* `call` tells a get_next_task call from every other operation.           *)

Constructed(id) == tasks[id] # NoTask

InitQueue ==
    /\ TaskIdle /\ OrchIdle /\ ToolIdle /\ MemIdle

\* Task(...) constructed by a caller, then TaskQueue.add_task(task)
QAdd ==
    /\ \E id \in TaskIds, p \in TaskPriority, c \in 0..MaxCreated :
          /\ ~Constructed(id)
          /\ \A j \in TaskIds : j < id => Constructed(j)
          /\ tasks' = [tasks EXCEPT ![id] = Task(p, c, None, 0)]
          /\ queue' = TaskQueue_add_task(queue, id)
    /\ call' = [op |-> "other"]
    /\ UNCHANGED <<clock, orchVars, toolVars, memVars>>

QRemove ==
    /\ \E id \in TaskIds :
          /\ InQueue(queue, id)
          /\ queue' = TaskQueue_remove_task(queue, id)
    /\ call' = [op |-> "other"]
    /\ UNCHANGED <<tasks, clock, orchVars, toolVars, memVars>>

QStart ==
    /\ \E id \in TaskIds :
          /\ Constructed(id) /\ tasks[id].status = PENDING
          /\ tasks' = [tasks EXCEPT ![id] = Task_start(@, clock)]
    /\ call' = [op |-> "other"]
    /\ UNCHANGED <<queue, clock, orchVars, toolVars, memVars>>

QCancel ==
    /\ \E id \in TaskIds :
          /\ Constructed(id) /\ tasks[id].status = PENDING
          /\ tasks' = [tasks EXCEPT ![id] = Task_cancel(@, clock)]
    /\ call' = [op |-> "other"]
    /\ UNCHANGED <<queue, clock, orchVars, toolVars, memVars>>

\* get_next_task(); n tells one call from the next
QGetNext ==
    /\ call' = [op  |-> "get_next_task",
                ret |-> TaskQueue_get_next_task(queue, tasks),
                n   |-> IF call.op = "get_next_task" THEN 1 - call.n ELSE 0]
    /\ UNCHANGED <<tasks, queue, clock, orchVars, toolVars, memVars>>

NextQueue ==
    \/ QAdd
    \/ QRemove
    \/ QStart
    \/ QCancel
    \/ QGetNext

SpecQueue == InitQueue /\ [][NextQueue]_vars

PendingIn(q, ts) == {id \in TaskIds : InQueue(q, id) /\ ts[id].status = PENDING}
Rank(id) == _priority_order[tasks[id].priority]

(* C4: priority dominates age.  Whenever get_next_task returns a task, no   *)
(* Pending task in the queue has a higher priority (critical above high     *)
(* above medium above low), whatever the creation times and whatever the    *)
(* order of insertion: of two Pending tasks of different priority the       *)
(* higher one is returned before the lower one.                             *)
C4_PriorityDominatesAge ==
    (call.op = "get_next_task" /\ call.ret # None) =>
        \A id \in PendingIn(queue, tasks) :
            LET r == call.ret[1] IN
            /\ Rank(r) <= Rank(id)
            /\ (tasks[id].priority = "critical") => tasks[r].priority = "critical"
            /\ (tasks[id].priority = "high") => tasks[r].priority \in {"critical", "high"}
            /\ (tasks[id].priority = "medium") => tasks[r].priority # "low"

\* get_next_task returned the higher-priority task although the lower-priority
\* one was created earlier and was added earlier
C4_Witness ==
    /\ call.op = "get_next_task" /\ call.ret # None
    /\ \E id \in PendingIn(queue, tasks) :
          /\ Rank(call.ret[1]) < Rank(id)
          /\ tasks[id].created_at < tasks[call.ret[1]].created_at
          /\ id < call.ret[1]

(* C5: FIFO within a priority band.  Whenever get_next_task returns a task  *)
(* no Pending task of the same priority was created strictly earlier; a     *)
(* Pending task that is first by (priority, creation time) is the one       *)
(* returned, wherever it stands in the dict; and a second call with nothing *)
(* in between returns the same task.                                        *)
C5_FifoWithinBand ==
    [][ call'.op = "get_next_task" =>
          /\ call'.ret # None =>
                \A id \in PendingIn(queue', tasks') :
                    tasks'[id].priority = tasks'[call'.ret[1]].priority
                        => tasks'[call'.ret[1]].created_at <= tasks'[id].created_at
          /\ \A t1 \in PendingIn(queue', tasks') :
                (\A t2 \in PendingIn(queue', tasks') \ {t1} :
                    KeyLess(SortKey(tasks', t1), SortKey(tasks', t2)))
                => call'.ret = Some(t1)
          /\ call.op = "get_next_task" => call'.ret = call.ret ]_vars

\* two Pending tasks of one priority, the later-created one added first, and
\* two consecutive calls returned the earlier-created one
C5_Witness ==
    /\ call.op = "get_next_task" /\ call.n = 1 /\ call.ret # None
    /\ \E t2 \in PendingIn(queue, tasks) :
          /\ tasks[t2].priority = tasks[call.ret[1]].priority
          /\ tasks[call.ret[1]].created_at < tasks[t2].created_at
          /\ t2 < call.ret[1]

(* C6: get_next_task returns None exactly when no task in the queue is      *)
(* Pending; otherwise the task it returns is in the queue and Pending; the  *)
(* call changes neither the queue nor any task.                             *)
C6_GetNextPendingOnly ==
    [][ call'.op = "get_next_task" =>
          /\ (call'.ret = None) <=> (PendingIn(queue, tasks) = {})
          /\ call'.ret # None => call'.ret[1] \in PendingIn(queue, tasks)
          /\ queue' = queue
          /\ tasks' = tasks ]_vars

\* get_next_task returned a Pending task while a task that is not Pending,
\* of higher priority, stands before it in the queue
C6_Witness ==
    /\ call.op = "get_next_task" /\ call.ret # None
    /\ \E id \in TaskIds :
          /\ InQueue(queue, id) /\ tasks[id].status # PENDING
          /\ Rank(id) < Rank(call.ret[1])
          /\ id < call.ret[1]

\* get_next_task returned None although the queue holds tasks
C6_WitnessNone ==
    /\ call.op = "get_next_task" /\ call.ret = None
    /\ queue # <<>>

----------------------------------------------------------------------------
(* core/base_tool.py: BaseTool.run.  SpecTool is one tool whose parameter  *)
(* list has one required and one optional parameter; run is called with    *)
(* any set of keyword arguments and execute (abstract in BaseTool) ends in *)
(* any of the ways a coroutine can end.                                    *)

Params         == {"req", "opt"}
required_params == {"req"}

\* the ways `await self.execute(**kwargs)` ends: it returns, or it raises an
\* exception object; cls tells whether the object is an Exception or only a
\* BaseException (SystemExit, KeyboardInterrupt, asyncio.CancelledError),
\* msg is str(e), which is empty for an exception raised without arguments
ExecuteOutcomes ==
    {[kind |-> "return"]} \cup
    {[kind |-> "raise", cls |-> c, msg |-> m] :
        c \in {"Exception", "BaseException"}, m \in {"", "boom"}}

\* a validation that misses nothing
_validate_parameters_Skipped(kwargs) == {}

\* _validate_parameters: the set of missing parameters
_validate_parameters(kwargs) == required_params \ kwargs

\* `except Exception as e` catches e
Caught(e) == e.cls = "Exception"

InitTool ==
    /\ TaskIdle /\ OrchIdle /\ ToolIdle /\ MemIdle

\* run() up to its first suspension: count the use, validate, call execute
RunBegin ==
    /\ runsBegun < MaxRuns
    /\ runsBegun' = runsBegun + 1
    /\ usage_count' = usage_count + 1
    /\ \E kwargs \in SUBSET Params :
          IF _validate_parameters(kwargs) # {}
          THEN \* ValueError("Missing required parameters: ...") is caught
               /\ failure_count' = failure_count + 1
               /\ call' = [op |-> "run", failed |-> "validation", raised |-> FALSE,
                           result |-> [success |-> FALSE,
                                       error |-> "Missing required parameters"],
                           kwargs |-> kwargs]
               /\ UNCHANGED <<success_count, inflight>>
          ELSE /\ inflight' = inflight + 1
               /\ call' = [op |-> "execute", kwargs |-> kwargs]
               /\ UNCHANGED <<success_count, failure_count>>
    /\ UNCHANGED <<tasks, queue, clock, orchVars, memVars>>

\* execute() ends and run() runs to its end
RunEnd ==
    /\ inflight > 0
    /\ inflight' = inflight - 1
    /\ \E o \in ExecuteOutcomes :
          IF o.kind = "return"
          THEN /\ success_count' = success_count + 1
               /\ call' = [op |-> "run", failed |-> "no", raised |-> FALSE,
                           result |-> [success |-> TRUE, error |-> ""]]
               /\ UNCHANGED failure_count
          ELSE IF Caught(o)
          THEN /\ failure_count' = failure_count + 1
               /\ call' = [op |-> "run", failed |-> "execute", raised |-> FALSE,
                           result |-> [success |-> FALSE, error |-> o.msg]]
               /\ UNCHANGED success_count
          ELSE \* not an Exception: no handler, run() raises it to its caller
               /\ call' = [op |-> "run", failed |-> "execute", raised |-> TRUE]
               /\ UNCHANGED <<success_count, failure_count>>
    /\ UNCHANGED <<usage_count, runsBegun, tasks, queue, clock, orchVars, memVars>>

\* a reset that forgets usage_count
ResetStats_KeepsUsage ==
    /\ usage_count' = usage_count
    /\ success_count' = 0
    /\ failure_count' = 0
    /\ call' = [op |-> "reset_stats"]
    /\ UNCHANGED <<inflight, runsBegun, tasks, queue, clock, orchVars, memVars>>

ResetStats ==
    /\ usage_count' = 0
    /\ success_count' = 0
    /\ failure_count' = 0
    /\ call' = [op |-> "reset_stats"]
    /\ UNCHANGED <<inflight, runsBegun, tasks, queue, clock, orchVars, memVars>>

NextTool ==
    \/ RunBegin
    \/ RunEnd
    \/ ResetStats

SpecTool == InitTool /\ [][NextTool]_vars

(* C8: run never raises.  Whenever validation or execute failed, run        *)
(* returned a map with success = false and a non-empty error text, and the  *)
(* failure did not reach run's caller.                                      *)
C8_RunNeverRaises ==
    (call.op = "run" /\ call.failed # "no") =>
        /\ ~call.raised
        /\ call.result.success = FALSE
        /\ call.result.error # ""

\* run() let an exception of execute() through to its caller
C8_RaisedThrough ==
    call.op = "run" /\ call.raised

----------------------------------------------------------------------------
(* core/memory.py: ConversationMemory.  SpecMemory is one memory object    *)
(* constructed with any max_size in 0..MaxMemSize.                         *)

Texts == {"a", "b"}
Roles == {"user", "assistant"}

\* Python's seq[start:] for any integer start
PySliceFrom(seq, start) ==
    LET n    == Len(seq)
        from == IF start < 0
                THEN (IF n + start < 0 THEN 0 ELSE n + start)
                ELSE (IF start > n THEN n ELSE start)
    IN  SubSeq(seq, from + 1, n)

ConversationMemory_store(convs, input_text, output_text, now, size) ==
    LET conversation == [input |-> input_text, output |-> output_text,
                         timestamp |-> now]
        appended == Append(convs, conversation)
    IN  IF Len(appended) > size
        THEN PySliceFrom(appended, -size)
        ELSE appended

ConversationMemory_add_message(msgs, role, content, now, size) ==
    LET message  == [role |-> role, content |-> content, timestamp |-> now]
        appended == Append(msgs, message)
    IN  IF Len(appended) > size * 2
        THEN PySliceFrom(appended, -size * 2)
        ELSE appended

\* retrieve(): the last `limit` turns, each as its text and timestamp; the
\* text f"User: {input}\nAgent: {output}" is kept as the pair it is made of;
\* query is not read
ConversationMemory_retrieve(convs, query, limit) ==
    LET relevant == PySliceFrom(convs, -limit)
    IN  [k \in 1..Len(relevant) |->
            [content   |-> <<relevant[k].input, relevant[k].output>>,
             timestamp |-> relevant[k].timestamp]]

\* get_recent_messages(limit): `if limit:` is false for None and for 0
ConversationMemory_get_recent_messages(msgs, limit) ==
    IF limit = None THEN msgs
    ELSE IF limit[1] = 0 THEN msgs
    ELSE PySliceFrom(msgs, -limit[1])

\* the arguments retrieve and get_recent_messages are called with
MaxLimit == 2
Queries  == {"q", "r"}
Limits   == 0..MaxLimit

InitMemory ==
    /\ max_size \in 0..MaxMemSize
    /\ conversations = <<>>
    /\ messages = <<>>
    /\ TaskIdle /\ OrchIdle /\ ToolIdle

\* store(); the guard caps the length a list can reach in a run
Store ==
    /\ Len(conversations) <= MaxMemSize
    /\ \E i \in Texts :
          conversations' =
              ConversationMemory_store(conversations, i, "reply", clock, max_size)
    /\ call' = [op |-> "store"]
    /\ UNCHANGED <<max_size, messages, tasks, queue, clock, orchVars, toolVars>>

AddMessage ==
    /\ Len(messages) <= 2 * MaxMemSize
    /\ \E r \in Roles :
          messages' =
              ConversationMemory_add_message(messages, r, "text", clock, max_size)
    /\ call' = [op |-> "add_message"]
    /\ UNCHANGED <<max_size, conversations, tasks, queue, clock, orchVars, toolVars>>

\* clear() empties the conversations and leaves the messages
Clear ==
    /\ conversations' = <<>>
    /\ call' = [op |-> "clear"]
    /\ UNCHANGED <<max_size, messages, tasks, queue, clock, orchVars, toolVars>>

\* retrieve(query, limit)
Retrieve ==
    /\ \E q \in Queries, l \in Limits :
          call' = [op |-> "retrieve", query |-> q, limit |-> l,
                   ret |-> ConversationMemory_retrieve(conversations, q, l)]
    /\ UNCHANGED <<max_size, conversations, messages, tasks, queue, clock,
                   orchVars, toolVars>>

NextMemory ==
    \/ Store
    \/ AddMessage
    \/ Clear
    \/ Retrieve

SpecMemory == InitMemory /\ [][NextMemory]_vars

(* C9: memory bound.  For every max_size >= 0 and after any sequence of     *)
(* store and add_message calls the number of stored turns is at most        *)
(* max_size and the number of stored messages is at most 2 * max_size.      *)
C9_MemoryBound ==
    /\ Len(conversations) <= max_size
    /\ Len(messages) <= 2 * max_size

----------------------------------------------------------------------------
(* core/orchestrator.py: AgentOrchestrator.                                *)
(*                                                                         *)
(* Everything runs on one asyncio event loop, so a coroutine runs without  *)
(* interruption from one suspension point to the next; each action below   *)
(* is one such stretch.  The suspension points are `await asyncio.sleep`   *)
(* in start(), `await agent.execute_task(task)` in execute_task() and      *)
(* `await asyncio.gather` in stop().  asyncio.create_task() appends the    *)
(* new coroutine's first stretch to the loop's FIFO of ready callbacks:    *)
(* `ready` is that FIFO restricted to new executions.  A start() loop that *)
(* has stepped while executions were waiting in `ready` cannot step again  *)
(* before them, because its sleep timer is queued behind them; steps of    *)
(* other coroutines (callers of submit_task, cancel, ...) may have been    *)
(* queued before and can run in between.                                   *)
(*                                                                         *)
(* In Spec the clock does not advance: started_at and completed_at decide  *)
(* nothing in the orchestrator (SpecTask is where they change).            *)

\* the names agents are registered under and tasks are assigned to; a task
\* that names an agent while it is not registered names an unknown agent
AgentNames == {"A", "B"}

\* Spec runs with the one agent "A"; SpecRoute, below, with both
OneAgent == {"A"}

\* the text of Task.error_message, by the f-string that made it
AgentNotFound(name) == [kind |-> "Agent not found", agent |-> name]
NoAgentsAvailable   == [kind |-> "No agents available"]
TaskExecutionFailed(m) == [kind |-> "Task execution failed", error |-> m]

Registered(a) == \E k \in 1..Len(agents) : agents[k] = a

ActiveIds(act) == {t \in TaskIds : act[t] # 0}

FreeExecs == {e \in ExecIds : execs[e] = NoExec}
FreeLoops == LoopIds \ loops

Min(S) == CHOOSE x \in S : \A y \in S : x <= y

\* a capacity test that admits one task too many
HasCapacity_OffByOne(act, max) == Cardinality(ActiveIds(act)) <= max

\* start(): len(self._active_tasks) < self.max_concurrent_tasks
HasCapacity(act, max) == Cardinality(ActiveIds(act)) < max

InitOrch ==
    /\ TaskIdle
    /\ OrchEmpty
    /\ max_concurrent_tasks \in 0..MaxConcurrent
    /\ agentPool = OneAgent
    /\ ToolIdle /\ MemIdle

RegisterAgent ==
    /\ \E a \in agentPool :
          /\ ~Registered(a)
          /\ agents' = Append(agents, a)
    /\ UNCHANGED <<taskVars, running, active, execs, loops, stops, agentCalls, task_history,
                   max_concurrent_tasks, agentPool, ready, batch, toolVars, memVars>>

UnregisterAgent ==
    /\ \E a \in agentPool :
          /\ Registered(a)
          /\ agents' = SelectSeq(agents, LAMBDA x : x # a)
    /\ UNCHANGED <<taskVars, running, active, execs, loops, stops, agentCalls, task_history,
                   max_concurrent_tasks, agentPool, ready, batch, toolVars, memVars>>

\* created_at of the id-th task constructed: utcnow() at construction, which
\* does not decrease from one construction to the next
CreatedAt(id) == IF id - 1 > MaxCreated THEN MaxCreated ELSE id - 1

\* the task objects a caller can construct as the id-th task: any agent_name;
\* a later task has the higher priority, so that selection by priority and
\* selection by age differ; every task has the same retry budget
NewTasks(id) ==
    {Task(IF id % 2 = 1 THEN "low" ELSE "high", CreatedAt(id), a, MaxRetriesBound) :
        a \in {None} \cup {Some(n) : n \in agentPool}}

\* the next task object to be constructed
FreshId(id) == ~Constructed(id) /\ \A j \in TaskIds : j < id => Constructed(j)

\* a caller constructs a Task and calls submit_task(task)
Submit ==
    /\ \E id \in TaskIds : \E t \in NewTasks(id) :
          /\ FreshId(id)
          /\ tasks' = [tasks EXCEPT ![id] = t]
          /\ queue' = TaskQueue_add_task(queue, id)
    /\ UNCHANGED <<clock, call, orchVars, toolVars, memVars>>

\* the holder of a Pending task calls task.cancel()
Cancel ==
    /\ \E id \in TaskIds :
          /\ Constructed(id) /\ tasks[id].status = PENDING
          /\ tasks' = [tasks EXCEPT ![id] = Task_cancel(@, clock)]
    /\ UNCHANGED <<queue, clock, call, orchVars, toolVars, memVars>>

\* a routing that takes the agent registered last
execute_task_begin_LastAgent(ts, calls, id) ==
    LET t == ts[id] IN
    IF t.agent_name # None
    THEN IF ~Registered(t.agent_name[1])
         THEN [tasks |-> [ts EXCEPT ![id] =
                            Task_fail(t, Some(AgentNotFound(t.agent_name[1])), clock)],
               calls |-> calls, returned |-> TRUE, agent |-> None]
         ELSE [tasks |-> [ts EXCEPT ![id] = Task_start(t, clock)],
               calls |-> [calls EXCEPT ![id] = @ + 1], returned |-> FALSE,
               agent |-> t.agent_name]
    ELSE IF agents = <<>>
         THEN [tasks |-> [ts EXCEPT ![id] =
                            Task_fail(t, Some(NoAgentsAvailable), clock)],
               calls |-> calls, returned |-> TRUE, agent |-> None]
         ELSE [tasks |-> [ts EXCEPT ![id] =
                            Task_start([t EXCEPT !.agent_name =
                                           Some(agents[Len(agents)])], clock)],
               calls |-> [calls EXCEPT ![id] = @ + 1], returned |-> FALSE,
               agent |-> Some(agents[Len(agents)])]

\* execute_task() from its first line to `await agent.execute_task(task)`,
\* or to its return when no agent is found
\*   ts, calls: the tasks and the agent-call counts before; id: the task
\*   gives the tasks and counts after, whether the coroutine returned, and
\*   the agent whose execute_task it awaits
execute_task_begin(ts, calls, id) ==
    LET t == ts[id] IN
    IF t.agent_name # None
    THEN IF ~Registered(t.agent_name[1])
         THEN [tasks |-> [ts EXCEPT ![id] =
                            Task_fail(t, Some(AgentNotFound(t.agent_name[1])), clock)],
               calls |-> calls, returned |-> TRUE, agent |-> None]
         ELSE [tasks |-> [ts EXCEPT ![id] = Task_start(t, clock)],
               calls |-> [calls EXCEPT ![id] = @ + 1], returned |-> FALSE,
               agent |-> t.agent_name]
    ELSE IF agents = <<>>
         THEN [tasks |-> [ts EXCEPT ![id] =
                            Task_fail(t, Some(NoAgentsAvailable), clock)],
               calls |-> calls, returned |-> TRUE, agent |-> None]
         ELSE [tasks |-> [ts EXCEPT ![id] =
                            Task_start([t EXCEPT !.agent_name = Some(agents[1])], clock)],
               calls |-> [calls EXCEPT ![id] = @ + 1], returned |-> FALSE,
               agent |-> Some(agents[1])]

\* the ways `await agent.execute_task(task)` ends
AgentOutcomes == {"return", "raise"}

\* an execute_task() whose except branch leaves the task as it is
execute_task_end_NoFail(t, outcome) ==
    IF outcome = "return"
    THEN Task_complete(t, Some("result"), clock)
    ELSE t

\* execute_task() after `await agent.execute_task(task)`: the task afterwards
execute_task_end(t, outcome) ==
    IF outcome = "return"
    THEN Task_complete(t, Some("result"), clock)
    ELSE Task_retry(Task_fail(t, Some(TaskExecutionFailed("boom")), clock))

\* agent.task_history.append(task), made only after task.complete(result)
HistoryAfter(e, outcome) ==
    IF outcome = "return"
    THEN Append(task_history, [agent |-> execs[e].agent[1], task |-> execs[e].task])
    ELSE task_history

\* an execution that has returned is forgotten unless _active_tasks holds it
Release(ex, act, e) ==
    IF \E t \in TaskIds : act[t] = e
    THEN [ex EXCEPT ![e].st = "done"]
    ELSE [ex EXCEPT ![e] = NoExec]

\* an iteration that dispatches and never cleans up _active_tasks
LoopIteration_NoReap(l) ==
    LET next == IF HasCapacity(active, max_concurrent_tasks)
                THEN TaskQueue_get_next_task(queue, tasks)
                ELSE None
        e    == Min(FreeExecs)
    IN  /\ next # None => FreeExecs # {}
        /\ active' = IF next = None THEN active ELSE [active EXCEPT ![next[1]] = e]
        /\ execs' = IF next = None THEN execs
                    ELSE [execs EXCEPT ![e] = [task |-> next[1], st |-> "created",
                                               agent |-> None]]
        /\ ready' = IF next = None THEN ready ELSE Append(ready, e)
        /\ batch' = IF ready' = <<>> THEN {}
                    ELSE IF ready = <<>> THEN {l} ELSE batch \cup {l}

\* one iteration of the `while self._running` loop of start(), run by loop l
LoopIteration(l) ==
    LET next == IF HasCapacity(active, max_concurrent_tasks)
                THEN TaskQueue_get_next_task(queue, tasks)
                ELSE None
        e    == Min(FreeExecs)
        old  == IF next = None THEN 0 ELSE active[next[1]]
        \* asyncio.create_task(...); self._active_tasks[next_task.task_id] = ...
        act1 == IF next = None THEN active ELSE [active EXCEPT ![next[1]] = e]
        ex0  == IF old # 0 /\ execs[old].st = "done"
                THEN [execs EXCEPT ![old] = NoExec] ELSE execs
        ex1  == IF next = None THEN execs
                ELSE [ex0 EXCEPT ![e] = [task |-> next[1], st |-> "created",
                                         agent |-> None]]
        \* the entries whose async_task.done()
        completed_task_ids == {t \in ActiveIds(act1) : ex1[act1[t]].st = "done"}
    IN  /\ next # None => FreeExecs # {}
        /\ active' = [t \in TaskIds |->
                         IF t \in completed_task_ids THEN 0 ELSE act1[t]]
        /\ execs' = [x \in ExecIds |->
                         IF \E t \in completed_task_ids : act1[t] = x
                         THEN NoExec ELSE ex1[x]]
        /\ ready' = IF next = None THEN ready ELSE Append(ready, e)
        /\ batch' = IF ready' = <<>> THEN {}
                    ELSE IF ready = <<>> THEN {l} ELSE batch \cup {l}

\* start(): returns at once when already running, else sets _running and
\* runs the first iteration up to the sleep
Start ==
    /\ IF running
       THEN UNCHANGED <<running, active, execs, ready, batch, loops>>
       ELSE /\ FreeLoops # {}
            /\ running' = TRUE
            /\ LoopIteration(Min(FreeLoops))
            /\ loops' = loops \cup {Min(FreeLoops)}
    /\ UNCHANGED <<taskVars, agents, stops, agentCalls, task_history,
                   max_concurrent_tasks, agentPool,
                   toolVars, memVars>>

\* a loop wakes from asyncio.sleep(0.1): it tests _running and either runs
\* one more iteration or ends
LoopWake ==
    /\ \E l \in loops :
          /\ ready # <<>> => l \notin batch
          /\ IF running
             THEN LoopIteration(l) /\ UNCHANGED loops
             ELSE /\ loops' = loops \ {l}
                  /\ UNCHANGED <<active, execs, ready, batch>>
    /\ UNCHANGED <<taskVars, agents, running, stops, agentCalls, task_history,
                   max_concurrent_tasks, agentPool, toolVars, memVars>>

\* the first stretch of an execution made by create_task
ExecBegin ==
    /\ ready # <<>>
    /\ LET e == Head(ready)
           r == execute_task_begin(tasks, agentCalls, execs[e].task)
       IN  /\ tasks' = r.tasks
           /\ agentCalls' = r.calls
           /\ execs' = IF r.returned THEN Release(execs, active, e)
                                     ELSE [execs EXCEPT ![e].st = "awaiting",
                                                        ![e].agent = r.agent]
           /\ stops' = IF r.returned THEN {W \ {e} : W \in stops} \ {{}}
                                     ELSE stops
    /\ ready' = Tail(ready)
    /\ batch' = IF ready' = <<>> THEN {} ELSE batch
    /\ UNCHANGED <<queue, clock, call, agents, running, active, loops, task_history,
                   max_concurrent_tasks, agentPool, toolVars, memVars>>

\* agent.execute_task(task) ends and execute_task() runs to its return
ExecFinish ==
    /\ \E e \in ExecIds, o \in AgentOutcomes :
          /\ execs[e] # NoExec /\ execs[e].st = "awaiting"
          /\ tasks' = [tasks EXCEPT ![execs[e].task] = execute_task_end(@, o)]
          \* a retried task is submitted again: its key is in the dict already
          /\ queue' = IF o = "raise" /\ Task_retry_ret(tasks[execs[e].task])
                      THEN TaskQueue_add_task(queue, execs[e].task) ELSE queue
          /\ execs' = Release(execs, active, e)
          /\ stops' = {W \ {e} : W \in stops} \ {{}}
          /\ call' = [op |-> "agent.execute_task", outcome |-> o]
          /\ task_history' = HistoryAfter(e, o)
    /\ UNCHANGED <<clock, agents, running, active, loops, agentCalls,
                   max_concurrent_tasks, agentPool, ready, batch, toolVars, memVars>>

\* execute_task_sync(task) with a new task: submit_task and the first
\* stretch of execute_task, in the caller's own coroutine
ExecuteTaskSync ==
    /\ FreeExecs # {}
    /\ \E id \in TaskIds : \E t \in NewTasks(id) :
          /\ FreshId(id)
          /\ queue' = TaskQueue_add_task(queue, id)
          /\ LET r == execute_task_begin([tasks EXCEPT ![id] = t], agentCalls, id)
             IN  /\ tasks' = r.tasks
                 /\ agentCalls' = r.calls
                 /\ execs' = IF r.returned THEN execs
                             ELSE [execs EXCEPT ![Min(FreeExecs)] =
                                     [task |-> id, st |-> "awaiting",
                                      agent |-> r.agent]]
    /\ UNCHANGED <<clock, call, agents, running, active, loops, stops, task_history,
                   max_concurrent_tasks, agentPool, ready, batch, toolVars, memVars>>

\* stop(): clears _running and waits for the executions in _active_tasks
\* that have not returned (one caller of stop() waits at a time)
Stop ==
    /\ stops = {}
    /\ running' = FALSE
    /\ LET W == {active[t] : t \in {u \in ActiveIds(active) :
                                        execs[active[u]].st # "done"}}
       IN  stops' = IF W = {} THEN stops ELSE stops \cup {W}
    /\ UNCHANGED <<taskVars, agents, active, execs, loops, agentCalls, task_history,
                   max_concurrent_tasks, agentPool, ready, batch, toolVars, memVars>>

Next ==
    \/ RegisterAgent
    \/ UnregisterAgent
    \/ Submit
    \/ Cancel
    \/ Start
    \/ LoopWake
    \/ ExecBegin
    \/ ExecFinish
    \/ ExecuteTaskSync
    \/ Stop

Spec == InitOrch /\ [][Next]_vars

InProgressIds == {t \in TaskIds : Constructed(t) /\ tasks[t].status = IN_PROGRESS}

(* C1: in every reachable state the number of entries of _active_tasks is   *)
(* at most max_concurrent_tasks.                                            *)
C1_ActiveBound ==
    Cardinality(ActiveIds(active)) <= max_concurrent_tasks

\* the in-flight set is full and a Pending task waits for a slot
C1_Witness ==
    /\ max_concurrent_tasks >= 1
    /\ Cardinality(ActiveIds(active)) = max_concurrent_tasks
    /\ \E t \in PendingIn(queue, tasks) : active[t] = 0
    /\ loops # {} /\ running

(* C2: at no reachable state are more than max_concurrent_tasks tasks in    *)
(* status InProgress.                                                       *)
C2_InProgressBound ==
    Cardinality(InProgressIds) <= max_concurrent_tasks

\* C3 in the orchestrator: a task that is Cancelled keeps that status, under
\* every step of the dispatch loop and of execute_task
C3_CancelledIsFinal ==
    [][ \A id \in TaskIds :
          (Constructed(id) /\ tasks[id].status = CANCELLED) =>
              tasks'[id].status = CANCELLED ]_vars

\* the step is the first stretch of execute_task(tasks[id]): of the execution
\* at the head of `ready`, or of execute_task_sync with a task made for it
Dispatches(id) ==
    \/ /\ ready # <<>> /\ ready' = Tail(ready)
       /\ execs[Head(ready)].task = id
    \/ /\ ~Constructed(id) /\ tasks'[id] # NoTask
       /\ tasks'[id].status # PENDING

\* the task's error_message is the text made at orchestrator.py line 97
FailedByRouting(t) ==
    /\ t.status = FAILED
    /\ t.agent_name # None
    /\ t.error_message = Some(AgentNotFound(t.agent_name[1]))

(* C10: when execute_task begins for a task whose agent_name is not a       *)
(* registered agent, the task becomes Failed with an error_message naming   *)
(* that agent, retry_count keeps its value and no agent is called for it;   *)
(* and a task failed that way is never Pending again and never handed to    *)
(* an agent.                                                                *)
C10_UnknownAgentFails ==
    [][ \A id \in TaskIds :
          /\ ( /\ Dispatches(id)
               /\ tasks'[id].agent_name # None
               /\ ~Registered(tasks'[id].agent_name[1]) ) =>
                  /\ FailedByRouting(tasks'[id])
                  /\ tasks'[id].retry_count =
                        (IF Constructed(id) THEN tasks[id].retry_count ELSE 0)
                  /\ agentCalls'[id] = agentCalls[id]
          /\ ( Constructed(id) /\ FailedByRouting(tasks[id]) ) =>
                  /\ tasks'[id].status # PENDING
                  /\ agentCalls'[id] = agentCalls[id] ]_vars

\* a dispatched task was failed for naming an agent that is not registered
C10_Witness ==
    \E id \in TaskIds :
        /\ Constructed(id) /\ FailedByRouting(tasks[id])
        /\ ~Registered(tasks[id].agent_name[1])
        /\ tasks[id].retry_count = 0 /\ agentCalls[id] = 0
        /\ active[id] # 0

\* the step ends execution e because `await agent.execute_task(task)` raised:
\* the execution was waiting for the agent, is over afterwards, and
\* task.complete(result) was not what it did last
Raises(e) ==
    /\ execs[e] # NoExec /\ execs[e].st = "awaiting"
    /\ (execs'[e] = NoExec \/ execs'[e].st = "done")
    /\ tasks'[execs[e].task].status # COMPLETED

\* the task failed in the agent and has no retry left
FailedForGood(t) ==
    /\ t.status = FAILED
    /\ t.retry_count = t.max_retries
    /\ \E m \in Messages : t.error_message = Some(TaskExecutionFailed(m))

(* C11: when the agent's execute_task raises in a dispatched execution, a   *)
(* task with retry_count < max_retries is Pending and in the queue          *)
(* afterwards with retry_count one higher; a task with retry_count =        *)
(* max_retries is Failed with the error text and the same retry_count; and  *)
(* a task Failed that way stays Failed and is handed to no agent again.     *)
C11_RaiseRetries ==
    [][ /\ \A e \in ExecIds : Raises(e) =>
              LET t == tasks[execs[e].task]
                  u == tasks'[execs[e].task]
              IN  IF t.retry_count < t.max_retries
                  THEN /\ u.status = PENDING
                       /\ u.retry_count = t.retry_count + 1
                       /\ InQueue(queue', execs[e].task)
                  ELSE /\ FailedForGood(u)
                       /\ u.retry_count = t.retry_count
        /\ \A id \in TaskIds :
              (Constructed(id) /\ FailedForGood(tasks[id])) =>
                  /\ tasks'[id].status = FAILED
                  /\ agentCalls'[id] = agentCalls[id] ]_vars

\* a dispatched task failed in the agent twice: retried once, then out of
\* retries
C11_Witness ==
    \E id \in TaskIds :
        /\ Constructed(id) /\ FailedForGood(tasks[id])
        /\ tasks[id].max_retries >= 1
        /\ agentCalls[id] = tasks[id].max_retries + 1
        /\ InQueue(queue, id)

----------------------------------------------------------------------------
(* SpecRoute: the orchestrator with two agents to choose from and one       *)
(* start() loop (stop() and cancel() are not called)                        *)

InitRoute ==
    /\ TaskIdle
    /\ OrchEmpty
    /\ max_concurrent_tasks \in 1..MaxConcurrent
    /\ agentPool = AgentNames
    /\ ToolIdle /\ MemIdle

NextRoute ==
    \/ RegisterAgent
    \/ UnregisterAgent
    \/ Submit
    \/ Start
    \/ LoopWake
    \/ ExecBegin
    \/ ExecFinish
    \/ ExecuteTaskSync

SpecRoute == InitRoute /\ [][NextRoute]_vars

\* the step is the first stretch of the execution the loop created first
BeginsHead == ready # <<>> /\ ready' = Tail(ready)

\* the step ends execution e because `await agent.execute_task(task)`
\* returned
Returns(e) ==
    /\ execs[e] # NoExec /\ execs[e].st = "awaiting"
    /\ (execs'[e] = NoExec \/ execs'[e].st = "done")
    /\ call'.op = "agent.execute_task" /\ call'.outcome = "return"

(* C12: when a dispatched execution begins for a task with no agent_name    *)
(* while some agent is registered, the agent it awaits is the first of the  *)
(* registered agents in registration order, the task's agent_name becomes   *)
(* that agent's name and the task is InProgress; and when the agent's       *)
(* execute_task returns, the task is Completed with the returned result as  *)
(* output_data and still carries that agent's name.                         *)
C12_AutoAssignFirst ==
    [][ /\ ( /\ BeginsHead
             /\ tasks[execs[Head(ready)].task].agent_name = None
             /\ agents # <<>> ) =>
               LET e == Head(ready)
                   u == tasks'[execs[e].task]
               IN  /\ execs'[e] # NoExec /\ execs'[e].st = "awaiting"
                   /\ execs'[e].agent = Some(agents[1])
                   /\ u.agent_name = Some(agents[1])
                   /\ u.status = IN_PROGRESS
                   /\ agentCalls'[execs[e].task] = agentCalls[execs[e].task] + 1
        /\ \A e \in ExecIds : Returns(e) =>
               LET u == tasks'[execs[e].task]
               IN  /\ u.status = COMPLETED
                   /\ u.output_data = Some("result")
                   /\ u.agent_name = execs[e].agent ]_vars

\* both agents are registered, "B" before "A", and a task dispatched by the
\* loop was completed by "B"
C12_Witness ==
    /\ agents = <<"B", "A">>
    /\ call.op = "agent.execute_task" /\ call.outcome = "return"
    /\ \E id \in TaskIds :
          /\ Constructed(id) /\ tasks[id].status = COMPLETED
          /\ tasks[id].agent_name = Some("B")
          /\ tasks[id].output_data = Some("result")
          /\ active[id] # 0 /\ execs[active[id]].st = "done"
          /\ execs[active[id]].agent = Some("B")

----------------------------------------------------------------------------
(* agents/master_agent.py: MasterAgent.process, with the tools api.py      *)
(* gives it (the n8n workflow tools; no current_datetime tool), and        *)
(* tools/n8n_workflow_tools.py: N8nWorkflowTool.execute under BaseTool.run. *)
(*                                                                         *)
(* A message is the set of phrases it contains.  usage_count,              *)
(* success_count and failure_count are the counters of the                 *)
(* calendar_workflow tool.                                                 *)

MaxPhrases == 2      \* phrases in one message
MaxCalls   == 2      \* runs of the calendar tool in a run of SpecMaster

\* the phrases (written without diacritics) and what each is to a reader
Phrases ==
    { "takvim",      \* `calendar`
      "toplanti",    \* `meeting`
      "gorev",       \* `task`
      "dosya",       \* `file`
      "yarin",       \* `tomorrow`: a date
      "14:00",       \* a time of day
      "saat 14",     \* `at 14 o'clock`: a time of day
      "15.12",       \* the 15th of December: a date
      "15 Aralik",   \* the 15th of December: a date
      "saat kac" }   \* `what time is it`

MessagesIn == {m \in SUBSET Phrases : m # {} /\ Cardinality(m) <= MaxPhrases}

\* the message states a time of day
StatesTime(m) == m \cap {"14:00", "saat 14"} # {}

\* len(message.split())
Words(p) == IF p \in {"saat 14", "15 Aralik", "saat kac"} THEN 2 ELSE 1
RECURSIVE WordCount(_)
WordCount(m) ==
    IF m = {} THEN 0
    ELSE LET p == CHOOSE x \in m : TRUE IN Words(p) + WordCount(m \ {p})

\* INTENT_PATTERNS, in dict order, with the keywords that are among Phrases
\* (no phrase matches one of the "patterns")
IntentOrder == <<"todo", "calendar", "drive", "mail_categorization",
                 "mail_prioritizing">>
Keywords(intent) ==
    CASE intent = "todo"     -> {"gorev"}
      [] intent = "calendar" -> {"takvim", "toplanti"}
      [] intent = "drive"    -> {"dosya"}
      [] OTHER               -> {}

\* _detect_intent_keywords: the first intent with the highest score, if > 0
Score(intent, m) == Cardinality(m \cap Keywords(intent))
_detect_intent_keywords(m) ==
    LET best == {i \in 1..Len(IntentOrder) :
                    /\ Score(IntentOrder[i], m) > 0
                    /\ \A j \in 1..Len(IntentOrder) :
                          \/ Score(IntentOrder[j], m) < Score(IntentOrder[i], m)
                          \/ (Score(IntentOrder[j], m) = Score(IntentOrder[i], m) /\ i <= j)}
    IN  IF best = {} THEN None ELSE Some(IntentOrder[CHOOSE i \in best : TRUE])

\* the names in MasterAgent._tool_map (api.py: _create_workflow_tools)
WorkflowTools == {"todo_workflow", "calendar_workflow", "drive_workflow",
                  "mail_categorization_workflow", "mail_prioritizing_workflow"}

ToolName(intent) ==
    CASE intent = "todo"     -> "todo_workflow"
      [] intent = "calendar" -> "calendar_workflow"
      [] intent = "drive"    -> "drive_workflow"
      [] intent = "mail_categorization" -> "mail_categorization_workflow"
      [] OTHER               -> "mail_prioritizing_workflow"

\* detect_intent: the tool name, or None
detect_intent(m, toolMap) ==
    LET keyword_intent == _detect_intent_keywords(m)
    IN  IF keyword_intent # None /\ ToolName(keyword_intent[1]) \in toolMap
        THEN Some(ToolName(keyword_intent[1]))
        ELSE None

\* extract_event_details: which of time and date the regular expressions find
\*   time:  (\d{1,2})[:\.](\d{2})  or  saat\s*(\d{1,2})
\*   date:  a date keyword, or (\d{1,2})[/\.\s-]*(<month name>|\d{1,2})
extract_event_details(m) ==
    [time |-> m \cap {"14:00", "15.12", "saat 14"} # {},
     date |-> m \cap {"yarin", "15.12", "15 Aralik", "14:00", "saat 14"} # {}]

\* _check_missing_details: the question to ask, or None
_check_missing_details(intent_name, m, has_file) ==
    LET details   == extract_event_details(m)
        has_title == "toplanti" \in m
        missing   == (IF ~details.date THEN {"tarih"} ELSE {})
                     \cup (IF ~details.time THEN {"saat"} ELSE {})
                     \cup (IF ~has_title /\ WordCount(m) < 5 THEN {"baslik"} ELSE {})
    IN  IF intent_name = "calendar_workflow" /\ missing # {}
        THEN Some([kind |-> "question", about |-> "calendar", missing |-> missing])
        ELSE IF intent_name = "drive_workflow" /\ ~has_file
        THEN Some([kind |-> "question", about |-> "drive", missing |-> {"dosya"}])
        ELSE None

\* the ways the webhook request of N8nWorkflowTool.execute ends
WebhookOutcomes ==
    {"ok", "http_error", "workflow_error", "empty_response",
     "connector_error", "client_error", "timeout", "other_exception"}

\* the error text execute puts in its result for each of them
ErrorText(o) ==
    CASE o = "ok"              -> ""
      [] o = "http_error"      -> "HTTP 500: ..."
      [] o = "workflow_error"  -> "Workflow returned error"
      [] o = "empty_response"  -> "Webhook returned empty response - check if workflow is active"
      [] o = "connector_error" -> "n8n baglanti hatasi: Sunucu calisiyor mu? (...)"
      [] o = "client_error"    -> "Istek hatasi: ..."
      [] o = "timeout"         -> "Islem zaman asimina ugradi (120 saniye)"
      [] OTHER                 -> "Beklenmeyen hata: ..."

\* N8nWorkflowTool.execute: every outcome is returned as a dict
N8nWorkflowTool_execute(o) ==
    [success |-> (o = "ok"), error |-> ErrorText(o)]

\* BaseTool.run of an n8n tool, whose one required parameter is chat_input:
\* the dict run returns when execute was called and ended as o
ToolKwargs == {"chat_input", "user_id"}
N8n_run(kwargs, o) ==
    IF "chat_input" \notin kwargs
    THEN \* ValueError from _validate_parameters, caught by run
         [success |-> FALSE, error |-> "Missing required parameters: ...",
          result |-> None]
    ELSE \* execute returned: run counts a success and wraps the dict
         [success |-> TRUE, error |-> "",
          result |-> Some(N8nWorkflowTool_execute(o))]

\* MasterAgent.execute_tool: process always passes chat_input
execute_tool(tool_name, toolMap, o) ==
    IF tool_name \notin toolMap
    THEN [success |-> FALSE, error |-> "tool not found", result |-> None]
    ELSE N8n_run({"chat_input", "user_id"}, o)

\* `"x" in error` for the substrings process looks for
Contains(text, sub) ==
    CASE sub = "timeout"    -> FALSE    \* no error text above has "timeout"
      [] sub = "connection" -> FALSE
      [] sub = "404"        -> FALSE
      [] OTHER              -> FALSE

\* MasterAgent.process: the reply and the tool it ran (None: no tool)
\*   m: the message; has_file; o: how the webhook request ends if one is made
process(m, has_file, toolMap, o) ==
    LET tool_name == detect_intent(m, toolMap)
        missing_details ==
            IF tool_name = None THEN None
            ELSE _check_missing_details(tool_name[1], m, has_file)
        result == execute_tool(tool_name[1], toolMap, o)
    IN  IF "saat kac" \in m /\ "current_datetime" \in toolMap
        THEN [reply |-> [kind |-> "datetime"], ran |-> Some("current_datetime"),
              result |-> None]
        ELSE IF tool_name = None
        THEN [reply |-> [kind |-> "conversation"], ran |-> None, result |-> None]
        ELSE IF missing_details # None
        THEN [reply |-> missing_details[1], ran |-> None, result |-> None]
        ELSE IF result.success
        THEN [reply |-> [kind |-> IF result.result = None THEN "no_result"
                                                           ELSE "success"],
              ran |-> tool_name, result |-> Some(result)]
        ELSE [reply |-> [kind |-> IF Contains(result.error, "timeout")
                                  THEN "error_timeout" ELSE "error"],
              ran |-> tool_name, result |-> Some(result)]

InitMaster ==
    /\ TaskIdle /\ OrchIdle /\ ToolIdle /\ MemIdle

\* the counters of the calendar tool after a run that returned r
Counted(r) ==
    /\ usage_count' = usage_count + 1
    /\ runsBegun' = runsBegun + 1
    /\ IF r.success
       THEN success_count' = success_count + 1 /\ UNCHANGED failure_count
       ELSE failure_count' = failure_count + 1 /\ UNCHANGED success_count

\* a caller awaits master_agent.process(message, context)
Process ==
    /\ runsBegun < MaxCalls
    /\ \E m \in MessagesIn, has_file \in BOOLEAN, o \in WebhookOutcomes :
          LET r == process(m, has_file, WorkflowTools, o) IN
          /\ (r.ran = None) => o = "ok"
          /\ call' = [op |-> "process", message |-> m, has_file |-> has_file,
                      outcome |-> IF r.ran = None THEN "none" ELSE o,
                      ran |-> r.ran, reply |-> r.reply, result |-> r.result]
          /\ IF r.ran = Some("calendar_workflow")
             THEN Counted(r.result[1])
             ELSE UNCHANGED <<usage_count, success_count, failure_count, runsBegun>>
    /\ UNCHANGED <<tasks, queue, clock, inflight, orchVars, memVars>>

\* a caller awaits run(**kwargs) on the calendar tool
RunTool ==
    /\ runsBegun < MaxCalls
    /\ \E kwargs \in SUBSET ToolKwargs, o \in WebhookOutcomes :
          LET r == N8n_run(kwargs, o) IN
          /\ ("chat_input" \notin kwargs) => o = "ok"
          /\ call' = [op |-> "run", kwargs |-> kwargs,
                      outcome |-> IF "chat_input" \in kwargs THEN o ELSE "none",
                      ran |-> Some("calendar_workflow"), result |-> Some(r)]
          /\ Counted(r)
    /\ UNCHANGED <<tasks, queue, clock, inflight, orchVars, memVars>>

NextMaster ==
    \/ Process
    \/ RunTool

SpecMaster == InitMaster /\ [][NextMaster]_vars

(* C13: when process gets a message that detect_intent routes to the        *)
(* calendar tool and that states no time of day, it replies with a question *)
(* and the calendar tool's usage_count, success_count and failure_count     *)
(* are unchanged.                                                           *)
C13_AsksBeforeScheduling ==
    [][ ( /\ call'.op = "process"
          /\ detect_intent(call'.message, WorkflowTools) = Some("calendar_workflow")
          /\ ~StatesTime(call'.message) ) =>
            /\ call'.reply.kind = "question"
            /\ call'.ran = None
            /\ usage_count' = usage_count
            /\ success_count' = success_count
            /\ failure_count' = failure_count ]_vars

\* the text names the timeout
NamesTimeout(text) == text = ErrorText("timeout")

(* C14: when the webhook request of the calendar tool times out, run        *)
(* returns success = false with an error text that names the timeout, and   *)
(* failure_count, not success_count, is one higher.                         *)
C14_TimeoutIsFailure ==
    [][ ( /\ call'.op \in {"run", "process"}
          /\ call'.ran = Some("calendar_workflow")
          /\ call'.outcome = "timeout" ) =>
            /\ call'.result[1].success = FALSE
            /\ NamesTimeout(call'.result[1].error)
            /\ failure_count' = failure_count + 1
            /\ success_count' = success_count ]_vars

----------------------------------------------------------------------------
(* SpecAgents: the orchestrator executing tasks with the agents of api.py: *)
(* "A" is the MasterAgent, "B" a CodeAgent (agents/code_agent.py), whose   *)
(* execute_task goes through BaseAgent.process (core/base_agent.py).       *)

AgentClass(a) == IF a = "A" THEN "MasterAgent" ELSE "CodeAgent"

\* the ways `await self.llm_provider.generate(...)` ends: it returns text, or
\* the backend fails (network, quota, auth) and it raises an Exception
BackendOutcomes == {"ok", "error"}

\* BaseAgent.process: the string it returns; a failure of the backend is
\* caught and returned as text
BaseAgent_process(llm) ==
    IF llm = "ok" THEN [kind |-> "response"]
                  ELSE [kind |-> "Error processing request: ..."]

\* CodeAgent.execute_task: how it ends and the dict it returns
CodeAgent_execute_task(llm) ==
    [outcome |-> "return", response |-> BaseAgent_process(llm),
     tool |-> "none", backend |-> llm]

\* the replies of MasterAgent.process that are written by the backend
\* (_generate_organic_response, _generate_conversation_response: a failure
\* of the backend is caught and a fixed text returned)
UsesBackend(reply) == reply.kind \in {"success", "conversation"}

\* MasterAgent.execute_task: how it ends and the dict it returns
MasterAgent_execute_task(m, has_file, o, llm) ==
    LET r == process(m, has_file, WorkflowTools, o)
    IN  [outcome |-> "return", response |-> r.reply,
         tool |-> IF r.ran = None THEN "none" ELSE o,
         backend |-> IF UsesBackend(r.reply) THEN llm ELSE "none"]

InitAgents ==
    /\ TaskIdle
    /\ OrchEmpty
    /\ max_concurrent_tasks = 1
    /\ agentPool = AgentNames
    /\ ToolIdle /\ MemIdle

\* execute_task() after `await agent.execute_task(task)` ended as r says
AgentEnded(e, r) ==
    /\ tasks' = [tasks EXCEPT ![execs[e].task] = execute_task_end(@, r.outcome)]
    /\ queue' = IF r.outcome = "raise" /\ Task_retry_ret(tasks[execs[e].task])
                THEN TaskQueue_add_task(queue, execs[e].task) ELSE queue
    /\ execs' = Release(execs, active, e)
    /\ stops' = {W \ {e} : W \in stops} \ {{}}
    /\ call' = [op |-> "agent.execute_task", outcome |-> r.outcome,
                tool |-> r.tool, backend |-> r.backend]
    /\ task_history' = HistoryAfter(e, r.outcome)

\* the agent awaited by an execution runs its execute_task to the end, and
\* execute_task() of the orchestrator runs to its return
AgentRuns ==
    /\ \E e \in ExecIds :
          /\ execs[e] # NoExec /\ execs[e].st = "awaiting"
          /\ IF AgentClass(execs[e].agent[1]) = "MasterAgent"
             THEN \E m \in MessagesIn, has_file \in BOOLEAN,
                     o \in WebhookOutcomes, llm \in BackendOutcomes :
                     LET r == MasterAgent_execute_task(m, has_file, o, llm) IN
                     /\ (r.tool = "none") => o = "ok"
                     /\ (r.backend = "none") => llm = "ok"
                     /\ AgentEnded(e, r)
             ELSE \E llm \in BackendOutcomes :
                     AgentEnded(e, CodeAgent_execute_task(llm))
    /\ UNCHANGED <<clock, agents, running, active, loops, agentCalls,
                   max_concurrent_tasks, agentPool, ready, batch, toolVars, memVars>>

NextAgents ==
    \/ RegisterAgent
    \/ Submit
    \/ Start
    \/ LoopWake
    \/ ExecBegin
    \/ ExecuteTaskSync
    \/ AgentRuns

SpecAgents == InitAgents /\ [][NextAgents]_vars

\* the step ends execution e, which was waiting for its agent
AgentEnds(e) ==
    /\ execs[e] # NoExec /\ execs[e].st = "awaiting"
    /\ (execs'[e] = NoExec \/ execs'[e].st = "done")
    /\ call'.op = "agent.execute_task"

(* C15: when the tool run made during a task's execution timed out and the  *)
(* task has retry_count < max_retries, the task is Pending afterwards with  *)
(* retry_count one higher.                                                  *)
C15_TimeoutRetriesTask ==
    [][ \A e \in ExecIds :
          ( /\ AgentEnds(e) /\ call'.tool = "timeout"
            /\ tasks[execs[e].task].retry_count < tasks[execs[e].task].max_retries ) =>
              /\ tasks'[execs[e].task].status = PENDING
              /\ tasks'[execs[e].task].retry_count =
                    tasks[execs[e].task].retry_count + 1 ]_vars

(* C16: when the generation backend failed while the agent executed the     *)
(* task, the task is not Completed afterwards: it is Pending again with     *)
(* retry_count one higher while retry_count < max_retries, and Failed       *)
(* otherwise.                                                               *)
C16_BackendErrorFailsTask ==
    [][ \A e \in ExecIds :
          ( AgentEnds(e) /\ call'.backend = "error" ) =>
              LET t == tasks[execs[e].task]
                  u == tasks'[execs[e].task]
              IN  /\ u.status # COMPLETED
                  /\ IF t.retry_count < t.max_retries
                     THEN u.status = PENDING /\ u.retry_count = t.retry_count + 1
                     ELSE u.status = FAILED ]_vars

----------------------------------------------------------------------------
(* The counters of a tool (SpecTool) and the timestamps and data of a task *)
(* (SpecTask, Spec)                                                        *)

(* C17, as claimed: under every operation of a tool each of usage_count,    *)
(* success_count and failure_count is at least what it was.                 *)
C17_CountersMonotone ==
    [][ /\ usage_count' >= usage_count
        /\ success_count' >= success_count
        /\ failure_count' >= failure_count ]_vars

(* C17, amended: reset_stats sets the three counters to 0; under every      *)
(* other operation each counter is at least what it was.                    *)
C17_MonotoneBetweenResets ==
    [][ IF call'.op = "reset_stats"
        THEN usage_count' = 0 /\ success_count' = 0 /\ failure_count' = 0
        ELSE /\ usage_count' >= usage_count
             /\ success_count' >= success_count
             /\ failure_count' >= failure_count ]_vars

\* reset_stats was called on a tool that had been run, while a run is
\* still waiting for execute
C17_Witness ==
    /\ call.op = "reset_stats"
    /\ runsBegun >= 2 /\ inflight >= 1
    /\ usage_count = 0 /\ success_count = 0 /\ failure_count = 0

(* C18: a task's started_at is set by the step that takes it from Pending   *)
(* to InProgress and, once set, keeps its value under every lifecycle       *)
(* operation, also when the task is retried and started again.              *)
C18_StartedAtOnce ==
    [][ /\ (tasks[1].status = PENDING /\ tasks'[1].status = IN_PROGRESS) =>
               tasks'[1].started_at # None
        /\ tasks[1].started_at # None =>
               tasks'[1].started_at = tasks[1].started_at ]_vars

(* C19: a task that is Pending or InProgress has no completed_at, also      *)
(* after a retry made it Pending again, and completed_at, once set, keeps   *)
(* its value.                                                               *)
C19_CompletedAtOnce ==
    [][ \A id \in TaskIds : tasks'[id] # NoTask =>
          /\ tasks'[id].status \in {PENDING, IN_PROGRESS} =>
                 tasks'[id].completed_at = None
          /\ (Constructed(id) /\ tasks[id].completed_at # None) =>
                 tasks'[id].completed_at = tasks[id].completed_at ]_vars

(* C20: in every reachable state of a task, output_data is set only if the  *)
(* status is Completed and error_message is set only if it is Failed.       *)
C20_DataMatchesStatus ==
    /\ tasks[1].output_data # None => tasks[1].status = COMPLETED
    /\ tasks[1].error_message # None => tasks[1].status = FAILED

----------------------------------------------------------------------------
(* stop(), ownership of a task and selection by the loop (Spec)             *)

Terminal == {COMPLETED, FAILED, CANCELLED}

\* execution e has been made and has not returned
InFlight(e) == execs[e] # NoExec /\ execs[e].st \in {"created", "awaiting"}

\* the step ends execution e: execute_task() runs to a return
Ends(e) == InFlight(e) /\ (execs'[e] = NoExec \/ execs'[e].st = "done")

\* the step makes a start() loop hand a task to a new execution
LoopDispatches == Len(ready') > Len(ready)

(* C21: every execution a stop() waits for ends with its task Completed,    *)
(* Failed or Cancelled, and a loop hands out a task only while _running is  *)
(* set, which stop() has cleared.                                           *)
C21_StopWaitsForTerminal ==
    [][ /\ \A e \in ExecIds : (e \in UNION stops /\ Ends(e)) =>
               tasks'[execs[e].task].status \in Terminal
        /\ LoopDispatches => running' ]_vars

\* the executions that are awaiting an agent's execute_task for task id
Executing(ex, id) ==
    {e \in ExecIds : ex[e] # NoExec /\ ex[e].st = "awaiting" /\ ex[e].task = id}

(* C22: no task has two executions awaiting an agent at once, and no        *)
(* execution begins for a task that is InProgress.                          *)
C22_SingleOwner ==
    [][ \A id \in TaskIds :
          /\ Cardinality(Executing(execs', id)) <= 1
          /\ (Constructed(id) /\ Dispatches(id)) =>
                 tasks[id].status # IN_PROGRESS ]_vars

----------------------------------------------------------------------------
(* SpecSelect: one start() loop and callers that construct tasks of any     *)
(* priority and submit them in any order: a task constructed earlier may be *)
(* added to the queue later (QAdd draws created_at apart from the order of  *)
(* insertion)                                                               *)

InitSelect ==
    /\ TaskIdle
    /\ OrchEmpty
    /\ max_concurrent_tasks \in 1..MaxConcurrent
    /\ agentPool = OneAgent
    /\ ToolIdle /\ MemIdle

NextSelect ==
    \/ RegisterAgent
    \/ QAdd
    \/ Cancel
    \/ Start
    \/ LoopWake
    \/ ExecBegin
    \/ ExecFinish

SpecSelect == InitSelect /\ [][NextSelect]_vars

\* the task of the execution the loop has made last
Selected(ex, rdy) == ex[rdy[Len(rdy)]].task

(* C23: whenever a start() loop hands a task to a new execution, that task  *)
(* is, before the step, Pending and in the queue, and no other Pending task *)
(* in the queue has a higher priority, or the same priority and an earlier  *)
(* created_at.                                                              *)
C23_LoopSelectsMinimal ==
    [][ LoopDispatches =>
          LET id == Selected(execs', ready') IN
          /\ id \in PendingIn(queue, tasks)
          /\ \A o \in PendingIn(queue, tasks) \ {id} :
                /\ ~(Rank(o) < Rank(id))
                /\ ~(Rank(o) = Rank(id) /\
                     tasks[o].created_at < tasks[id].created_at) ]_vars

\* the loop has selected the task that was created earlier although it was
\* added to the queue later than a Pending task of the same priority
C23_Witness ==
    /\ ready # <<>>
    /\ LET id == Selected(execs, ready) IN
       /\ tasks[id].status = PENDING
       /\ \E o \in PendingIn(queue, tasks) :
             /\ o < id
             /\ tasks[o].priority = tasks[id].priority
             /\ tasks[o].created_at > tasks[id].created_at

----------------------------------------------------------------------------
(* The retry budget of a dispatched task (Spec)                             *)

(* C24: in every reachable state each task has 0 <= retry_count <=          *)
(* max_retries and has been handed to an agent's execute_task at most       *)
(* max_retries + 1 times.                                                   *)
C24_RetryBudget ==
    \A id \in TaskIds : Constructed(id) =>
        /\ 0 <= tasks[id].retry_count
        /\ tasks[id].retry_count <= tasks[id].max_retries
        /\ agentCalls[id] <= tasks[id].max_retries + 1

----------------------------------------------------------------------------
(* The counters of a tool under interleaved run() calls (SpecTool)          *)

\* every run() begun is counted as a success, a failure or still in progress
Balanced == usage_count = success_count + failure_count + inflight

(* C25: run() adds one to usage_count when it begins and one to exactly one *)
(* of success_count and failure_count when it ends, so that no step of a    *)
(* run() call, however the calls interleave, breaks usage_count =           *)
(* success_count + failure_count + (run calls in progress).                 *)
C25_CountersBalance ==
    [][ call'.op # "reset_stats" =>
          /\ (inflight' > inflight \/ (call'.op = "run" /\ call'.failed = "validation"))
                => usage_count' = usage_count + 1
          /\ (inflight' < inflight /\ ~call'.raised) =>
                (success_count' + failure_count') =
                    (success_count + failure_count) + 1
          /\ Balanced => Balanced' ]_vars

\* the step is the first stretch of a run(**kwargs) call
RunBegins == runsBegun' = runsBegun + 1

(* C26: when run() is called without a required parameter, it returns       *)
(* success = false with an error text, execute is not called, and the only  *)
(* counters that change are usage_count and failure_count, by one each.     *)
C26_ValidationFirst ==
    [][ (RunBegins /\ ~(required_params \subseteq call'.kwargs)) =>
          /\ call'.op = "run" /\ ~call'.raised
          /\ call'.result.success = FALSE
          /\ call'.result.error # ""
          /\ inflight' = inflight
          /\ usage_count' = usage_count + 1
          /\ failure_count' = failure_count + 1
          /\ success_count' = success_count ]_vars

\* run(opt=...) was refused while another run() was waiting for execute
C26_Witness ==
    /\ call.op = "run" /\ call.failed = "validation"
    /\ call.kwargs = {"opt"}
    /\ inflight = 1
    /\ usage_count = 2 /\ failure_count = 1 /\ success_count = 0

----------------------------------------------------------------------------
(* What the memory keeps, returns and forgets (SpecMemory)                  *)

\* the last min(k, Len(s)) elements of s, in order
LastN(s, k) ==
    LET m == IF k < Len(s) THEN (IF k < 0 THEN 0 ELSE k) ELSE Len(s)
    IN  SubSeq(s, Len(s) - m + 1, Len(s))

\* the turn store(input_text, "reply") appends
Turn(input_text) == [input |-> input_text, output |-> "reply", timestamp |-> clock]

(* C27: every store() leaves exactly the last min(n, max_size) of the n     *)
(* turns made of the turns stored before followed by the new one, in that   *)
(* order: the oldest are the ones dropped.                                  *)
C27_StoreKeepsLatest ==
    [][ call'.op = "store" =>
          \E i \in Texts :
              conversations' = LastN(Append(conversations, Turn(i)), max_size) ]_vars

\* what retrieve makes of a turn
Recalled(conv) == [content |-> <<conv.input, conv.output>>, timestamp |-> conv.timestamp]

(* C28: retrieve(query, limit) with limit >= 0 returns the last `limit`     *)
(* stored turns in the order they were stored, all of them when fewer are   *)
(* stored and never more than limit, whatever the query, and leaves the     *)
(* stored turns and messages as they were.                                  *)
C28_RetrieveLatest ==
    [][ call'.op = "retrieve" =>
          LET want == LastN(conversations, call'.limit) IN
          /\ Len(call'.ret) <= call'.limit
          /\ call'.ret = [k \in 1..Len(want) |-> Recalled(want[k])]
          /\ conversations' = conversations
          /\ messages' = messages ]_vars

(* C29: after clear(), retrieve returns no turn and get_recent_messages     *)
(* returns no message, for every query and limit and whatever was stored    *)
(* or added before.                                                         *)
C29_ClearEmpties ==
    [][ call'.op = "clear" =>
          /\ \A q \in Queries, l \in Limits :
                ConversationMemory_retrieve(conversations', q, l) = <<>>
          /\ \A limit \in {None} \cup {Some(l) : l \in Limits} :
                ConversationMemory_get_recent_messages(messages', limit) = <<>> ]_vars

----------------------------------------------------------------------------
(* core/base_agent.py: BaseAgent.process, for an agent whose memory is a    *)
(* ConversationMemory (SpecProcess)                                         *)

\* the ways `await self.memory.retrieve(...)` and `await
\* self.llm_provider.generate(...)` end: with a value, or by raising an
\* exception that is an Exception or only a BaseException (awaiting a call
\* that was cancelled raises asyncio.CancelledError)
AwaitOutcomes == {"ok", "Exception", "BaseException"}

\* BaseAgent.process(user_input) when retrieve ends as r and generate as g
\* (generate is not reached when retrieve raises): whether process raises,
\* the string it returns, and the conversations of the memory afterwards
BaseAgent_process_full(convs, user_input, r, g, now, size) ==
    LET failed == IF r # "ok" THEN r ELSE g IN
    IF failed = "ok"
    THEN [raised |-> FALSE, ret |-> "reply",
          convs |-> ConversationMemory_store(convs, user_input, "reply", now, size)]
    ELSE IF failed = "Exception"
    THEN [raised |-> FALSE, ret |-> "Error processing request: ...",
          convs |-> convs]
    ELSE [raised |-> TRUE, ret |-> "", convs |-> convs]

\* one call of process(); the guard caps the length the list can reach
AgentProcess ==
    /\ Len(conversations) <= MaxMemSize
    /\ \E i \in Texts, r \in AwaitOutcomes, g \in AwaitOutcomes :
          LET p == BaseAgent_process_full(conversations, i, r, g, clock, max_size)
          IN  /\ conversations' = p.convs
              /\ call' = [op |-> "process", input |-> i, retrieve |-> r,
                          generate |-> IF r = "ok" THEN g ELSE "not called",
                          raised |-> p.raised, ret |-> p.ret]
    /\ UNCHANGED <<max_size, messages, tasks, queue, clock, orchVars, toolVars>>

NextProcess ==
    \/ AgentProcess
    \/ Clear

SpecProcess == InitMemory /\ [][NextProcess]_vars

(* C30: process() never raises; when memory retrieval or generation fails   *)
(* it returns an error string and the stored turns are unchanged; when      *)
(* generation succeeds it returns the generated text and the memory gains   *)
(* exactly one turn, (input, response), as its newest.                      *)
C30_ProcessNeverRaises ==
    [][ call'.op = "process" =>
          /\ ~call'.raised
          /\ call'.generate # "ok" =>
                /\ call'.ret = "Error processing request: ..."
                /\ conversations' = conversations
          /\ call'.generate = "ok" =>
                /\ call'.ret = "reply"
                /\ conversations' # <<>>
                /\ conversations'[Len(conversations')] = Turn(call'.input)
                /\ SubSeq(conversations', 1, Len(conversations') - 1) =
                       LastN(conversations, Len(conversations') - 1) ]_vars

----------------------------------------------------------------------------
(* core/base_agent.py: BaseAgent.use_tool, for an agent bound to the one    *)
(* tool of SpecTool, which other callers run() at the same time (SpecUse)   *)

\* the name of the agent's tool, and the names use_tool is called with
BoundTools == {"tool"}
AskedTools == {"tool", "other"}

\* _get_tool(tool_name): whether a tool of self.tools has that name
_get_tool(tool_name) == tool_name \in BoundTools

\* use_tool(tool_name, **kwargs) when tool.execute ends as o: whether it
\* raises and what it raises or returns
BaseAgent_use_tool(tool_name, o) ==
    IF ~_get_tool(tool_name)
    THEN [found |-> FALSE, raised |-> TRUE, what |-> "ValueError: Tool not found"]
    ELSE IF o.kind = "return"
    THEN [found |-> TRUE, raised |-> FALSE, what |-> "result of execute"]
    ELSE [found |-> TRUE, raised |-> TRUE, what |-> "exception of execute"]

\* one call of use_tool: it calls tool.execute, not tool.run, and writes no
\* counter
UseTool ==
    /\ \E n \in AskedTools, o \in ExecuteOutcomes :
          LET u == BaseAgent_use_tool(n, o)
          IN  call' = [op |-> "use_tool", name |-> n, found |-> u.found,
                       raised |-> u.raised, what |-> u.what,
                       executeFailed |-> (u.found /\ o.kind = "raise")]
    /\ UNCHANGED <<toolVars, tasks, queue, clock, orchVars, memVars>>

NextUse ==
    \/ RunBegin
    \/ RunEnd
    \/ UseTool

SpecUse == InitTool /\ [][NextUse]_vars

(* C31: use_tool raises the not-found error when the agent has no tool of   *)
(* that name; otherwise it does not raise, also when the tool's execute     *)
(* fails, and the tool's usage_count goes up by one.                        *)
C31_UseToolAbsorbs ==
    [][ call'.op = "use_tool" =>
          IF ~_get_tool(call'.name)
          THEN call'.raised /\ call'.what = "ValueError: Tool not found"
          ELSE /\ ~call'.raised
               /\ usage_count' = usage_count + 1 ]_vars

----------------------------------------------------------------------------
(* agents/master_agent.py: MasterAgent._detect_intent_keywords as the loop  *)
(* it is, on messages that are sequences of words (SpecIntent).  Words are  *)
(* written without diacritics.                                              *)

MaxWords == 3      \* words in one message

\* the words of a message: `task`, `add`, `calendar`, `to the calendar`,
\* `file`, `save`
Vocab == {"gorev", "ekle", "takvim", "takvime", "dosya", "kaydet"}

WordMessages == UNION {[1..n -> Vocab] : n \in 1..MaxWords}

\* `s in w` for a string s and a word w of Vocab
InWord(s, w) == s = w \/ (s = "takvim" /\ w = "takvime")

\* `keyword in message_lower`: a keyword is one word or two words with a
\* space between them
KeywordIn(kw, msg) ==
    IF Len(kw) = 1
    THEN \E k \in 1..Len(msg) : InWord(kw[1], msg[k])
    ELSE \E k \in 1..(Len(msg) - 1) : msg[k] = kw[1] /\ msg[k + 1] = kw[2]

\* re.search(r"a.*b", message_lower): a, then anything, then b
re_search(pattern, msg) ==
    \E i \in 1..Len(msg) : \E j \in (i + 1)..Len(msg) :
        InWord(pattern[1], msg[i]) /\ InWord(pattern[2], msg[j])

\* INTENT_PATTERNS[intent]["keywords"] and ["patterns"], in list order: the
\* entries that a message over Vocab can contain
IntentKeywords(intent) ==
    CASE intent = "todo"     -> << <<"gorev">>, <<"gorev", "ekle">> >>
      [] intent = "calendar" -> << <<"takvim">> >>
      [] intent = "drive"    -> << <<"kaydet">>, <<"dosya">> >>
      [] OTHER               -> << >>

IntentPatterns(intent) ==
    CASE intent = "todo"     -> << <<"gorev", "ekle">> >>
      [] intent = "calendar" -> << <<"takvim", "ekle">>, <<"takvime", "kaydet">> >>
      [] intent = "drive"    -> << <<"dosya", "kaydet">> >>
      [] OTHER               -> << >>

\* the two inner loops: score += 1 per keyword, score += 2 per pattern
RECURSIVE KeywordLoop(_, _, _)
KeywordLoop(kws, msg, score) ==
    IF kws = <<>> THEN score
    ELSE KeywordLoop(Tail(kws), msg,
                     IF KeywordIn(Head(kws), msg) THEN score + 1 ELSE score)

RECURSIVE PatternLoop(_, _, _)
PatternLoop(pats, msg, score) ==
    IF pats = <<>> THEN score
    ELSE PatternLoop(Tail(pats), msg,
                     IF re_search(Head(pats), msg) THEN score + 2 ELSE score)

IntentScore(intent, msg) ==
    PatternLoop(IntentPatterns(intent), msg,
                KeywordLoop(IntentKeywords(intent), msg, 0))

\* a comparison that lets a later intent take over on an equal score
Better_OrEqual(score, best_score) == score >= best_score

\* `if score > best_score`
Better(score, best_score) == score > best_score

\* the outer loop over INTENT_PATTERNS.items() from the i-th intent on
RECURSIVE IntentLoop(_, _, _, _)
IntentLoop(i, msg, best_match, best_score) ==
    IF i > Len(IntentOrder)
    THEN (IF best_score > 0 THEN best_match ELSE None)
    ELSE LET score == IntentScore(IntentOrder[i], msg)
         IN  IF Better(score, best_score)
             THEN IntentLoop(i + 1, msg, Some(IntentOrder[i]), score)
             ELSE IntentLoop(i + 1, msg, best_match, best_score)

DetectIntentKeywords(msg) == IntentLoop(1, msg, None, 0)

InitIntent ==
    /\ TaskIdle /\ OrchIdle /\ ToolIdle /\ MemIdle

\* one call of _detect_intent_keywords(message)
DetectIntent ==
    /\ \E msg \in WordMessages :
          call' = [op |-> "_detect_intent_keywords", message |-> msg,
                   ret |-> DetectIntentKeywords(msg)]
    /\ UNCHANGED <<tasks, queue, clock, orchVars, toolVars, memVars>>

NextIntent == DetectIntent

SpecIntent == InitIntent /\ [][NextIntent]_vars

\* the claim's score: keywords contained plus twice the patterns matched
ClaimedScore(intent, msg) ==
    Cardinality({k \in 1..Len(IntentKeywords(intent)) :
                    KeywordIn(IntentKeywords(intent)[k], msg)})
    + 2 * Cardinality({k \in 1..Len(IntentPatterns(intent)) :
                    re_search(IntentPatterns(intent)[k], msg)})

(* C32: for every message the intent returned is the one with the highest   *)
(* score = keywords contained + 2 * patterns matched when that score is     *)
(* above 0, the first in declaration order among those with the highest     *)
(* score, and none when every score is 0.                                   *)
C32_IntentScoring ==
    call.op = "_detect_intent_keywords" =>
        LET msg == call.message
        IN  IF \A i \in 1..Len(IntentOrder) : ClaimedScore(IntentOrder[i], msg) = 0
            THEN call.ret = None
            ELSE \E i \in 1..Len(IntentOrder) :
                    /\ call.ret = Some(IntentOrder[i])
                    /\ ClaimedScore(IntentOrder[i], msg) > 0
                    /\ \A j \in 1..Len(IntentOrder) :
                          /\ ClaimedScore(IntentOrder[j], msg) <= ClaimedScore(IntentOrder[i], msg)
                          /\ j < i => ClaimedScore(IntentOrder[j], msg) <
                                      ClaimedScore(IntentOrder[i], msg)

\* `task`, `to the calendar`, `add`: todo and calendar both score 3 (one
\* keyword and one pattern each) and todo, declared first, is returned
C32_Witness ==
    /\ call.op = "_detect_intent_keywords"
    /\ call.message = <<"gorev", "takvime", "ekle">>
    /\ ClaimedScore("todo", call.message) = 3
    /\ ClaimedScore("calendar", call.message) = 3
    /\ call.ret = Some("todo")

----------------------------------------------------------------------------
(* What MasterAgent.process replies when the tool it ran failed (SpecMaster) *)

\* the replies that report a failure, and the one that confirms a success
FailureReplies == {"error", "error_timeout"}

(* C33: when the webhook request of the tool process ran fails, the reply   *)
(* is a failure message, the timeout message for a timeout, and never the   *)
(* success confirmation; the success confirmation is replied only when the  *)
(* request succeeded.                                                       *)
C33_FailureIsReported ==
    [][ (call'.op = "process" /\ call'.ran # None) =>
          /\ call'.outcome # "ok" =>
                /\ call'.reply.kind \in FailureReplies
                /\ call'.outcome = "timeout" => call'.reply.kind = "error_timeout"
          /\ call'.reply.kind = "success" => call'.outcome = "ok" ]_vars

----------------------------------------------------------------------------
(* SpecFair: SpecRoute with the scheduling the event loop gives: a start()  *)
(* loop asleep in asyncio.sleep(0.1) is woken, an execution made by         *)
(* create_task is begun, and (the premise of the progress claims) every     *)
(* agent.execute_task call ends                                             *)

SpecFair ==
    /\ InitRoute /\ [][NextRoute]_vars
    /\ WF_vars(LoopWake) /\ WF_vars(ExecBegin) /\ WF_vars(ExecFinish)

\* the entry of task t in _active_tasks is an execution that has finished
FinishedEntry(t) == active[t] # 0 /\ execs[active[t]].st = "done"

(* C34: while a loop runs, an entry of _active_tasks whose execution has    *)
(* finished is eventually removed and a task Pending in the queue is        *)
(* eventually dispatched; and an entry leaves _active_tasks only when its   *)
(* execution has finished.                                                  *)
C34_ReapedAndDispatched ==
    /\ [][ \A t \in TaskIds :
             (active[t] # 0 /\ active'[t] = 0) => FinishedEntry(t) ]_vars
    /\ \A t \in TaskIds :
          /\ (running /\ FinishedEntry(t)) ~> ~FinishedEntry(t)
          /\ (running /\ t \in PendingIn(queue, tasks))
                 ~> (t \notin PendingIn(queue, tasks))

\* with one slot, the entry of a finished execution is in _active_tasks
\* while the other task is Pending in the queue and waits for the slot
C34_Witness ==
    /\ running /\ max_concurrent_tasks = 1
    /\ \E t \in TaskIds : \E u \in PendingIn(queue, tasks) :
          t # u /\ FinishedEntry(t)

----------------------------------------------------------------------------
(* One loop, cancellation, termination and the agents' task history (Spec)  *)

(* C35: while _running is set at most one start() loop is alive, and a      *)
(* start() called while _running is set starts no loop.                     *)
C35_SingleLoop ==
    [][ /\ running' => Cardinality(loops') <= 1
        /\ running => loops' \subseteq loops ]_vars

(* C36: a task that is Cancelled is never selected by a loop, no agent's    *)
(* execute_task is called for it and its status stays Cancelled, whatever   *)
(* steps of the loop and of executions follow the cancel().                 *)
C36_CancelledStaysOut ==
    [][ \A id \in TaskIds : (Constructed(id) /\ tasks[id].status = CANCELLED) =>
          /\ tasks'[id].status = CANCELLED
          /\ agentCalls'[id] = agentCalls[id]
          /\ LoopDispatches => Selected(execs', ready') # id ]_vars

HistoryOf(a) == {k \in 1..Len(task_history) : task_history[k].agent = a}

\* get_stats()["failed_tasks"] of agent a
BaseAgent_get_stats_failed(a) ==
    Cardinality({k \in HistoryOf(a) : tasks[task_history[k].task].status = FAILED})

\* the step is the end of an agent call that returned for task t run by a
CompletesFor(t, a) ==
    \E e \in ExecIds :
        /\ Ends(e) /\ execs[e].st = "awaiting"
        /\ execs[e].task = t /\ execs[e].agent = Some(a)
        /\ call'.op = "agent.execute_task" /\ call'.outcome = "return"
        /\ tasks'[t].status = COMPLETED

(* C38: a task is appended to the task history of the agent that ran it     *)
(* exactly when its execution completes it, and to no other; no task is in  *)
(* a history twice and no agent's history holds a Failed task, so every     *)
(* agent's count of failed tasks is 0.                                      *)
C38_HistoryIsCompletions ==
    /\ [][ /\ \A t \in TaskIds, a \in AgentNames :
                 CompletesFor(t, a) <=>
                     task_history' = Append(task_history, [agent |-> a, task |-> t])
           /\ (task_history' # task_history) =>
                 \E t \in TaskIds, a \in AgentNames : CompletesFor(t, a) ]_vars
    /\ [](\A k, j \in 1..Len(task_history) :
              task_history[k].task = task_history[j].task => k = j)
    /\ [](\A a \in AgentNames : BaseAgent_get_stats_failed(a) = 0)

====
